---------------------------- MODULE Spec2Model ----------------------------
(***************************************************************************)
(* Voice translation and cloning pipeline of voice-translator-app.         *)
(*                                                                         *)
(* The module holds six state machines over disjoint variables:            *)
(*   - the synthesis queue and profile map of VoiceCloningService          *)
(*     (specifications Spec and LiveSpec),                                 *)
(*   - the voice-profile reducer with the profile screen's handlers        *)
(*     (ProfileSpec),                                                      *)
(*   - the call screen's translation loop over VoiceService (CallSpec),    *)
(*   - the translate calls of VoiceService and TranslationService          *)
(*     (TranslateSpec),                                                    *)
(*   - the profile store of VoiceCloningService with the native module's   *)
(*     profile table and voice_profiles.json (StoreSpec),                  *)
(*   - the language-detection calls (DetectSpec).                          *)
(* HangupSpec, PassSpec and ReducerSpec run the queue across the end of a  *)
(* call, the queue with every kind of options, and the reducer under the   *)
(* context's functions.                                                    *)
(*                                                                         *)
(* JavaScript runs each handler to its next await without interleaving,    *)
(* so one action is one such synchronous segment; every await on a native  *)
(* or network call is a suspension point ended by a separate action.       *)
(***************************************************************************)
EXTENDS Integers, Sequences, FiniteSets, TLC

\* ------------------------------------------------------------------ bounds

\* Number of synthesizeVoiceWithCloning calls explored.
MaxRequests == 3

\* Number of distinct profile ids the native module hands out.
MaxProfiles == 1

ProfileIds == 1..MaxProfiles

\* Number of profiles VoiceProfileScreen creates.
MaxScreenProfiles == 3

RequestIds == 1..MaxRequests

\* VoiceSynthesisOptions.quality values that take different branches of
\* performVoiceSynthesis ("medium" is what the real-time path passes).
Qualities == {"medium", "high"}

\* Every value of VoiceSynthesisOptions.quality.
AllQualities == {"low", "medium", "high", "ultra"}

VARIABLES
    \* ---- VoiceCloningService
    isInitialized,      \* private isInitialized: boolean
    voiceProfiles,      \* keys of the private voiceProfiles Map
    activeIds,          \* keys whose VoiceProfile has isActive set
    synthesisQueue,     \* private synthesisQueue: Array<request>
    isProcessing,       \* private isProcessing: boolean
    workers,            \* live activations of processSynthesisQueue, each
                        \* with the request it shifted and its position
    settled,            \* per request id: what its promise has seen
    accepted,           \* history: request ids in the order they were pushed
    settleOrder,        \* history: request ids in the order resolve/reject ran
    started,            \* history: ids whose performVoiceSynthesis was called
    activations,        \* history: processSynthesisQueue calls that passed
                        \* the entry test
    \* ---- VoiceProfileContext and VoiceProfileScreen
    profileState,       \* the reducer's VoiceProfileState
    training,           \* profiles whose trainVoiceProfile call is pending
    nextScreenId,       \* stands for Date.now() in `profile_${Date.now()}`
    \* ---- CallScreen over VoiceService
    callPhase,          \* "connecting", "active" (isConnected), or "ended"
                        \* (the component is unmounted)
    isRecording,        \* CallScreen's isRecording state
    isTranslating,      \* CallScreen's isTranslating state
    intervals,          \* live setInterval timers of startTranslation, each
                        \* with the isRecording its callback closed over
    translationTimer,   \* translationTimer.current (0: undefined)
    cycles,             \* cycles in flight, each with its position
    voiceServiceIsRecording,  \* VoiceService's private isRecording
    cleanupStopping,    \* VoiceService.cleanup awaits stopRecording
    startRecordingCalls,\* history: VoiceService.startRecording calls
    completedCycles,    \* history: cycles that ran to their end
    cycleErrors,        \* history: errors caught and logged inside a cycle
    ttsSpeaks,          \* history: texts handed to Tts.speak
    \* ---- VoiceService over SeamlessM4TService, TranslationService
    seamlessIsInitialized,   \* SeamlessM4TService.isInitialized
    isModelLoaded,      \* the native module's isModelLoaded
    useNativeProcessing,\* VoiceService.useNativeProcessing
    nativeProcessingProbed,  \* initializeNativeProcessing has run
    voiceCall,          \* the translateVoice / processRealTimeVoiceCloning
                        \* call in flight, or the last one made
    voiceCalls,         \* number of such calls made
    tempFiles,          \* temp_audio_<chunk id>.wav files in temporary storage
    textCall,           \* the translateText call in flight
    providerLog,        \* history: providers translateText invoked, in order
    providerFailures,   \* history: providers that failed for this request
    textOutcome,        \* what translateText's caller got
    textCalls,          \* number of translateText calls made
    \* ---- VoiceCloningService profile store
    backendProfiles,    \* the native module's voiceProfiles table:
                        \* profile id -> embeddings
    profileEmbeddings,  \* VoiceProfile.embeddings per key of voiceProfiles
    persisted,          \* content of voice_profiles.json
    storeCall,          \* the store method in flight, or the last one made
    storeCalls,         \* number of store methods called
    \* ---- language detection
    detectCall,         \* the detection call in flight, or the last one made
    detectCalls         \* number of detection calls made

storeVars == <<isInitialized, voiceProfiles, activeIds>>

queueVars == <<synthesisQueue, isProcessing, workers, settled, accepted,
               settleOrder, started, activations>>

reducerVars == <<profileState, training, nextScreenId>>

callVars == <<callPhase, isRecording, isTranslating, intervals,
              translationTimer, cycles, voiceServiceIsRecording,
              cleanupStopping, startRecordingCalls, completedCycles,
              cycleErrors, ttsSpeaks>>

seamlessVars == <<seamlessIsInitialized, isModelLoaded, useNativeProcessing,
                  nativeProcessingProbed>>

textVars == <<textCall, providerLog, providerFailures, textOutcome,
              textCalls>>

persistVars == <<backendProfiles, profileEmbeddings, persisted, storeCall,
                 storeCalls>>

detectVars == <<detectCall, detectCalls>>

translateVars == <<seamlessVars, voiceCall, voiceCalls, tempFiles, textVars>>

\* What no method of VoiceCloningService touches.
notCloning ==
    <<reducerVars, callVars, translateVars, persistVars,
      detectVars>>

\* What neither the reducer nor VoiceProfileScreen touches.
notReducer ==
    <<storeVars, queueVars, callVars, translateVars, persistVars,
      detectVars>>

\* What no translate call touches.
notTranslate ==
    <<storeVars, queueVars, reducerVars, callVars, persistVars,
      detectVars>>

\* What neither CallScreen nor VoiceService's recorder methods touch.
notCall ==
    <<storeVars, queueVars, reducerVars, translateVars, persistVars,
      detectVars>>

\* What the profile store's methods leave alone.
notStore == <<queueVars, reducerVars, callVars, translateVars, detectVars>>

\* What the language-detection calls leave alone.
notDetect ==
    <<storeVars, queueVars, reducerVars, callVars, persistVars, voiceCall,
      voiceCalls, tempFiles, textVars>>

vars == <<storeVars, queueVars, reducerVars, callVars, translateVars,
          persistVars, detectVars>>

\* ------------------------------------------------- VoiceCloningService

\* Positions of performVoiceSynthesis at which its promise is still pending.
InSynthesis == {"synthesize", "adjust", "enhance"}

\* The ids handed out so far: every call takes the next one.
NextRequest == Cardinality({r \in RequestIds : settled[r] # "none"}) + 1

Request(id, profileId, chars, quality) ==
    [id |-> id, profileId |-> profileId, chars |-> chars, quality |-> quality]

\* processSynthesisQueue's entry test: the negation of its early return.
StartsWorkerAlways(processing, queue) == Len(queue) > 0

StartsWorker(processing, queue) == ~processing /\ Len(queue) > 0

\* Array.prototype.shift: the request taken, and what is left.
Pop(queue) ==
    [request |-> queue[Len(queue)], rest |-> SubSeq(queue, 1, Len(queue) - 1)]

Peek(queue) == [request |-> Head(queue), rest |-> queue]

Shift(queue) == [request |-> Head(queue), rest |-> Tail(queue)]

\* The while test of processSynthesisQueue, reached after the inner
\* try/catch has settled a request with `outcome`.
DrainsNextAfterResolveOnly(outcome, queue) ==
    outcome = "resolved" /\ Len(queue) > 0

DrainsNext(outcome, queue) == Len(queue) > 0

\* isProcessing as the finally block leaves it.
ProcessingLeftSet == TRUE

ProcessingAfterExit == FALSE

\* The synchronous head of performVoiceSynthesis: the profile lookup, then the
\* call of nativeModule.synthesizeVoice, on which it suspends.  An audio
\* path is written as the passes that produced it, in order; a call that
\* throws has none.
BeginSynthesis(req) ==
    [req |-> req, pc |-> "synthesize",
     profileFound |-> req.profileId \in voiceProfiles,
     finalAudioPath |-> <<>>]

\* The pass that follows a successful pass, or "return" when none is left.
AfterSynthesizeEnhanceFirst(req) ==
    IF req.quality \in {"ultra", "high"} THEN "enhance"
    ELSE IF req.chars THEN "adjust"
    ELSE "return"

AfterSynthesize(req) ==
    IF req.chars THEN "adjust"
    ELSE IF req.quality \in {"ultra", "high"} THEN "enhance"
    ELSE "return"

AfterAdjust(req) ==
    IF req.quality \in {"ultra", "high"} THEN "enhance" ELSE "return"

NextPass(w) ==
    CASE w.pc = "synthesize" -> AfterSynthesize(w.req)
      [] w.pc = "adjust" -> AfterAdjust(w.req)
      [] OTHER -> "return"

\* The return statement reads profile.characteristics when the options carry
\* none; profile is undefined when the id was not in the map at the lookup.
ReturnThrows(w) == ~w.req.chars /\ ~w.profileFound

InitStore ==
    /\ isInitialized = FALSE
    /\ voiceProfiles = {}
    /\ activeIds = {}

InitQueue ==
    /\ synthesisQueue = <<>>
    /\ isProcessing = FALSE
    /\ workers = {}
    /\ settled = [r \in RequestIds |-> "none"]
    /\ accepted = <<>>
    /\ settleOrder = <<>>
    /\ started = {}
    /\ activations = 0

\* initialize(): the native initializeVoiceCloning reported success.
Initialize ==
    /\ ~isInitialized
    /\ isInitialized' = TRUE
    /\ UNCHANGED <<voiceProfiles, activeIds, queueVars, notCloning>>

\* createVoiceProfile(): the segment after the native createVoiceProfile
\* returned result.profileId.
CreateVoiceProfile(p) ==
    /\ isInitialized
    /\ voiceProfiles' = voiceProfiles \cup {p}
    /\ activeIds' = activeIds \ {p}
    /\ UNCHANGED <<isInitialized, queueVars, notCloning>>

\* deleteVoiceProfile(): the segment after the native cleanupVoiceProfile.
DeleteVoiceProfile(p) ==
    /\ voiceProfiles' = voiceProfiles \ {p}
    /\ activeIds' = activeIds \ {p}
    /\ UNCHANGED <<isInitialized, queueVars, notCloning>>

\* cleanup(): the segment after the last native cleanupVoiceProfile.
Cleanup ==
    /\ isInitialized
    /\ voiceProfiles' = {}
    /\ activeIds' = {}
    /\ isInitialized' = FALSE
    /\ UNCHANGED <<queueVars, notCloning>>

\* The two tests at the head of synthesizeVoiceWithCloning().
AcceptsAnyProfile(p) == isInitialized

Accepts(p) == isInitialized /\ p \in voiceProfiles

\* synthesizeVoiceWithCloning() refusing the call: it throws before the
\* Promise executor runs.
SubmitRefused(p) ==
    /\ NextRequest \in RequestIds
    /\ ~Accepts(p)
    /\ settled' = [settled EXCEPT ![NextRequest] = "refused"]
    /\ UNCHANGED <<storeVars, synthesisQueue, isProcessing, workers,
                   accepted, settleOrder, started, activations, notCloning>>

\* synthesizeVoiceWithCloning() accepting the call: push, then the
\* synchronous part of processSynthesisQueue().
Submit(p, chars, quality) ==
    /\ NextRequest \in RequestIds
    /\ Accepts(p)
    /\ LET req == Request(NextRequest, p, chars, quality)
           queue == Append(synthesisQueue, req)
       IN /\ settled' = [settled EXCEPT ![req.id] = "pending"]
          /\ accepted' = Append(accepted, req.id)
          /\ IF StartsWorker(isProcessing, queue)
             THEN /\ isProcessing' = TRUE
                  /\ synthesisQueue' = Shift(queue).rest
                  /\ workers' = workers \cup {BeginSynthesis(Shift(queue).request)}
                  /\ started' = started \cup {Shift(queue).request.id}
                  /\ activations' = activations + 1
             ELSE /\ synthesisQueue' = queue
                  /\ UNCHANGED <<isProcessing, workers, started, activations>>
    /\ UNCHANGED <<storeVars, settleOrder, notCloning>>

\* A native pass (synthesizeVoice, adjustVoiceCharacteristics or
\* enhanceAudioQuality) resolves; performVoiceSynthesis runs to its next await
\* or to its return.
PassReturns(w) ==
    /\ w \in workers
    /\ w.pc \in InSynthesis
    /\ LET next == NextPass(w)
           pc == IF next # "return" THEN next
                 ELSE IF ReturnThrows(w) THEN "rejected" ELSE "resolved"
           path == IF pc = "rejected" THEN <<>>
                   ELSE Append(w.finalAudioPath, w.pc)
       IN workers' = (workers \ {w})
                         \cup {[w EXCEPT !.pc = pc, !.finalAudioPath = path]}
    /\ UNCHANGED <<storeVars, synthesisQueue, isProcessing, settled, accepted,
                   settleOrder, started, activations, notCloning>>

\* A native pass rejects; performVoiceSynthesis has no handler, so its own
\* promise rejects.
PassFails(w) ==
    /\ w \in workers
    /\ w.pc \in InSynthesis
    /\ workers' = (workers \ {w})
                     \cup {[w EXCEPT !.pc = "rejected",
                                     !.finalAudioPath = <<>>]}
    /\ UNCHANGED <<storeVars, synthesisQueue, isProcessing, settled, accepted,
                   settleOrder, started, activations, notCloning>>

\* processSynthesisQueue resumes after `await performVoiceSynthesis`:
\* request.resolve or request.reject, then the while test, then either the
\* next shift and call or the finally block.
WorkerResumes(w) ==
    /\ w \in workers
    /\ w.pc \in {"resolved", "rejected"}
    /\ settled' = [settled EXCEPT ![w.req.id] =
                       IF @ = "pending" THEN w.pc ELSE "twice"]
    /\ settleOrder' = Append(settleOrder, w.req.id)
    /\ IF DrainsNext(w.pc, synthesisQueue)
       THEN /\ synthesisQueue' = Shift(synthesisQueue).rest
            /\ workers' = (workers \ {w})
                             \cup {BeginSynthesis(Shift(synthesisQueue).request)}
            /\ started' = started \cup {Shift(synthesisQueue).request.id}
            /\ UNCHANGED isProcessing
       ELSE /\ isProcessing' = ProcessingAfterExit
            /\ workers' = workers \ {w}
            /\ UNCHANGED <<synthesisQueue, started>>
    /\ UNCHANGED <<storeVars, accepted, activations, notCloning>>

\* setActiveProfile(): every flag is cleared, then the selected profile, if
\* the map holds it, is flagged (and only then the map is saved).
ActiveAfterSetKeepingOthers(p) ==
    IF p \in voiceProfiles THEN activeIds \cup {p} ELSE activeIds

ActiveAfterSet(p) == IF p \in voiceProfiles THEN {p} ELSE {}

SetActiveProfile(p) ==
    /\ activeIds' = ActiveAfterSet(p)
    /\ UNCHANGED <<isInitialized, voiceProfiles, queueVars, notCloning>>

\* ------------------------------ VoiceProfileContext, VoiceProfileScreen

\* Number of distinct profile ids of the VoiceCloningService map explored
\* together with the reducer.
MaxStoreProfiles == 2

StoreIds == 1..MaxStoreProfiles

\* activeProfile: null
NoProfile == [id |-> 0, isActive |-> FALSE]

initialState ==
    [profiles |-> <<>>, activeProfile |-> NoProfile,
     isRecording |-> FALSE, isTraining |-> FALSE]

voiceProfileReducer(state, action) ==
    CASE action.type = "ADD_PROFILE" ->
           [state EXCEPT !.profiles = Append(@, action.payload)]
      [] action.type = "UPDATE_PROFILE" ->
           [state EXCEPT
              !.profiles = [k \in 1..Len(@) |->
                              IF @[k].id = action.payload.id
                              THEN action.payload ELSE @[k]],
              !.activeProfile = IF @.id = action.payload.id
                                THEN action.payload ELSE @]
      [] action.type = "DELETE_PROFILE" ->
           [state EXCEPT
              !.profiles = SelectSeq(@, LAMBDA q : q.id # action.payload),
              !.activeProfile = IF @.id = action.payload
                                THEN NoProfile ELSE @]
      [] action.type = "SET_ACTIVE_PROFILE" ->
           [state EXCEPT !.activeProfile = action.payload]
      [] action.type = "SET_RECORDING" ->
           [state EXCEPT !.isRecording = action.payload]
      [] action.type = "SET_TRAINING" ->
           [state EXCEPT !.isTraining = action.payload]
      [] action.type = "LOAD_PROFILES" ->
           [state EXCEPT !.profiles = action.payload]
      [] OTHER -> state

Dispatched(state, type, payload) ==
    voiceProfileReducer(state, [type |-> type, payload |-> payload])

\* VoiceService.trainVoiceProfile: the profile it resolves with.
trainVoiceProfile(voiceProfile) == [voiceProfile EXCEPT !.isActive = TRUE]

InitReducer ==
    /\ profileState = initialState
    /\ training = {}
    /\ nextScreenId = 1

\* VoiceProfileScreen.createVoiceProfile up to `await trainVoiceProfile`.
ScreenCreateProfile ==
    /\ nextScreenId <= MaxScreenProfiles
    /\ profileState' = Dispatched(profileState, "SET_TRAINING", TRUE)
    /\ training' = training \cup {[id |-> nextScreenId, isActive |-> FALSE]}
    /\ nextScreenId' = nextScreenId + 1
    /\ UNCHANGED notReducer

\* VoiceProfileScreen.createVoiceProfile from the resolution of
\* trainVoiceProfile: addProfile(trainedProfile), then the finally block.
ScreenTrainingDone(newProfile) ==
    /\ newProfile \in training
    /\ profileState' =
          Dispatched(Dispatched(profileState, "ADD_PROFILE",
                                trainVoiceProfile(newProfile)),
                     "SET_TRAINING", FALSE)
    /\ training' = training \ {newProfile}
    /\ UNCHANGED <<nextScreenId, notReducer>>

\* handleDeleteProfile, confirmed in its alert.
HandleDeleteProfile(k) ==
    /\ k \in 1..Len(profileState.profiles)
    /\ profileState' =
          Dispatched(profileState, "DELETE_PROFILE", profileState.profiles[k].id)
    /\ UNCHANGED <<training, nextScreenId, notReducer>>

\* handleSetActiveProfile on a listed profile, or "Set as Active" in the
\* alert that follows its creation.
HandleSetActiveProfile(k) ==
    /\ k \in 1..Len(profileState.profiles)
    /\ profileState' =
          Dispatched(profileState, "SET_ACTIVE_PROFILE", profileState.profiles[k])
    /\ UNCHANGED <<training, nextScreenId, notReducer>>

\* The active profile card's button: setActiveProfile(null).
ClearActiveProfile ==
    /\ profileState.activeProfile # NoProfile
    /\ profileState' = Dispatched(profileState, "SET_ACTIVE_PROFILE", NoProfile)
    /\ UNCHANGED <<training, nextScreenId, notReducer>>

NextProfile ==
    \/ Initialize
    \/ Cleanup
    \/ \E p \in StoreIds : CreateVoiceProfile(p)
    \/ \E p \in StoreIds : DeleteVoiceProfile(p)
    \/ \E p \in StoreIds : SetActiveProfile(p)
    \/ ScreenCreateProfile
    \/ \E newProfile \in training : ScreenTrainingDone(newProfile)
    \/ \E k \in 1..Len(profileState.profiles) : HandleDeleteProfile(k)
    \/ \E k \in 1..Len(profileState.profiles) : HandleSetActiveProfile(k)
    \/ ClearActiveProfile


\* ------------------------------------------- CallScreen over VoiceService

\* Number of cycles the interval callbacks start.
MaxCycles == 2

\* Number of startTranslation calls.
MaxIntervals == 2

\* A cycle in flight stands at one of its awaits: "startStopping" and
\* "starting" (stopRecorder and startRecorder inside startRecording),
\* "capturing" (the 3 s setTimeout), "stopping" (stopRecorder inside
\* stopRecording), "reading" (convertAudioToBase64), "translating"
\* (translateStream), "speaking" (speak).
InitCall ==
    /\ callPhase = "connecting"
    /\ isRecording = FALSE
    /\ isTranslating = FALSE
    /\ intervals = {}
    /\ translationTimer = 0
    /\ cycles = {}
    /\ voiceServiceIsRecording = FALSE
    /\ cleanupStopping = FALSE
    /\ startRecordingCalls = 0
    /\ completedCycles = 0
    /\ cycleErrors = 0
    /\ ttsSpeaks = 0

\* clearInterval(translationTimer.current): only the timer the ref holds.
ClearTranslationTimer == {i \in intervals : i.id # translationTimer}

\* startTranslation of the render whose isRecording is `rendered`: the
\* callback handed to setInterval keeps that value for all its ticks.
startTranslation(rendered) ==
    /\ translationTimer < MaxIntervals
    /\ isTranslating' = TRUE
    /\ intervals' = intervals \cup
           {[id |-> translationTimer + 1, isRecording |-> rendered]}
    /\ translationTimer' = translationTimer + 1

stopTranslation ==
    /\ isTranslating' = FALSE
    /\ intervals' = ClearTranslationTimer
    /\ UNCHANGED translationTimer

\* The connection timeout of the mount effect; its startTranslation is the
\* one of the first render, where isRecording is the initial false.
Connect ==
    /\ callPhase = "connecting"
    /\ callPhase' = "active"
    /\ startTranslation(FALSE)
    /\ UNCHANGED <<isRecording, cycles, voiceServiceIsRecording,
                   cleanupStopping, startRecordingCalls, completedCycles,
                   cycleErrors, ttsSpeaks>>
    /\ UNCHANGED notCall

\* The translate button's handler of the current render.
toggleTranslation ==
    /\ callPhase # "ended"
    /\ IF isTranslating THEN stopTranslation
                        ELSE startTranslation(isRecording)
    /\ UNCHANGED <<callPhase, isRecording, cycles, voiceServiceIsRecording,
                   cleanupStopping, startRecordingCalls, completedCycles,
                   cycleErrors, ttsSpeaks>>
    /\ UNCHANGED notCall

\* "End Call" and the unmount that navigation.goBack() brings: the ref's
\* interval is cleared and VoiceService.cleanup runs to its first await.
handleEndCall ==
    /\ callPhase # "ended"
    /\ callPhase' = "ended"
    /\ intervals' = ClearTranslationTimer
    /\ cleanupStopping' = (cleanupStopping \/ voiceServiceIsRecording)
    /\ UNCHANGED <<isRecording, isTranslating, translationTimer, cycles,
                   voiceServiceIsRecording, startRecordingCalls,
                   completedCycles, cycleErrors, ttsSpeaks>>
    /\ UNCHANGED notCall

\* stopRecorder returns inside cleanup's stopRecording.
CleanupStopReturns ==
    /\ cleanupStopping
    /\ cleanupStopping' = FALSE
    /\ voiceServiceIsRecording' = FALSE
    /\ UNCHANGED <<callPhase, isRecording, isTranslating, intervals,
                   translationTimer, cycles, startRecordingCalls,
                   completedCycles, cycleErrors, ttsSpeaks>>
    /\ UNCHANGED notCall

\* stopRecorder throws inside cleanup, which logs and swallows the error.
CleanupStopFails ==
    /\ cleanupStopping
    /\ cleanupStopping' = FALSE
    /\ UNCHANGED <<callPhase, isRecording, isTranslating, intervals,
                   translationTimer, cycles, voiceServiceIsRecording,
                   startRecordingCalls, completedCycles, cycleErrors,
                   ttsSpeaks>>
    /\ UNCHANGED notCall

\* `if (isRecording) return` of the interval callback: the isRecording it
\* reads is the one its closure holds.
TickReturnsEarly(i) == i.isRecording

\* One tick of an installed interval, up to the await inside
\* VoiceService.startRecording.
Tick(i) ==
    /\ i \in intervals
    /\ IF TickReturnsEarly(i)
       THEN UNCHANGED <<isRecording, cycles, startRecordingCalls>>
       ELSE /\ startRecordingCalls < MaxCycles
            /\ isRecording' = TRUE
            /\ startRecordingCalls' = startRecordingCalls + 1
            /\ cycles' = cycles \cup
                   {[id |-> startRecordingCalls + 1,
                     pc |-> IF voiceServiceIsRecording
                            THEN "startStopping" ELSE "starting",
                     errorsBefore |-> cycleErrors]}
    /\ UNCHANGED <<callPhase, isTranslating, intervals, translationTimer,
                   voiceServiceIsRecording, cleanupStopping, completedCycles,
                   cycleErrors, ttsSpeaks>>
    /\ UNCHANGED notCall

MoveCycle(c, pc) == (cycles \ {c}) \cup {[c EXCEPT !.pc = pc]}

\* startRecording's own stopRecording returns.
StartStopReturns(c) ==
    /\ c \in cycles /\ c.pc = "startStopping"
    /\ voiceServiceIsRecording' = FALSE
    /\ cycles' = MoveCycle(c, "starting")
    /\ UNCHANGED <<callPhase, isRecording, isTranslating, intervals,
                   translationTimer, cleanupStopping, startRecordingCalls,
                   completedCycles, cycleErrors, ttsSpeaks>>
    /\ UNCHANGED notCall

\* startRecorder returns; the callback arms the 3 s timeout.
StartReturns(c) ==
    /\ c \in cycles /\ c.pc = "starting"
    /\ voiceServiceIsRecording' = TRUE
    /\ cycles' = MoveCycle(c, "capturing")
    /\ UNCHANGED <<callPhase, isRecording, isTranslating, intervals,
                   translationTimer, cleanupStopping, startRecordingCalls,
                   completedCycles, cycleErrors, ttsSpeaks>>
    /\ UNCHANGED notCall

\* setIsRecording(false) of the two catch paths.
IsRecordingLeftSet == TRUE

IsRecordingAfterError == FALSE

\* VoiceService.startRecording throws: the callback's outer catch.
StartFails(c) ==
    /\ c \in cycles /\ c.pc \in {"startStopping", "starting"}
    /\ cycleErrors' = cycleErrors + 1
    /\ isRecording' = IsRecordingAfterError
    /\ cycles' = cycles \ {c}
    /\ completedCycles' = completedCycles + 1
    /\ UNCHANGED <<callPhase, isTranslating, intervals, translationTimer,
                   voiceServiceIsRecording, cleanupStopping,
                   startRecordingCalls, ttsSpeaks>>
    /\ UNCHANGED notCall

\* The 3 s timeout fires: stopRecording returns '' at once when the
\* service is not recording, else awaits stopRecorder.
CaptureTimeout(c) ==
    /\ c \in cycles /\ c.pc = "capturing"
    /\ cycles' = MoveCycle(c, IF voiceServiceIsRecording
                              THEN "stopping" ELSE "reading")
    /\ UNCHANGED <<callPhase, isRecording, isTranslating, intervals,
                   translationTimer, voiceServiceIsRecording,
                   cleanupStopping, startRecordingCalls, completedCycles,
                   cycleErrors, ttsSpeaks>>
    /\ UNCHANGED notCall

StopReturns(c) ==
    /\ c \in cycles /\ c.pc = "stopping"
    /\ voiceServiceIsRecording' = FALSE
    /\ cycles' = MoveCycle(c, "reading")
    /\ UNCHANGED <<callPhase, isRecording, isTranslating, intervals,
                   translationTimer, cleanupStopping, startRecordingCalls,
                   completedCycles, cycleErrors, ttsSpeaks>>
    /\ UNCHANGED notCall

\* convertAudioToBase64 returns.
ReadReturns(c) ==
    /\ c \in cycles /\ c.pc = "reading"
    /\ cycles' = MoveCycle(c, "translating")
    /\ UNCHANGED <<callPhase, isRecording, isTranslating, intervals,
                   translationTimer, voiceServiceIsRecording,
                   cleanupStopping, startRecordingCalls, completedCycles,
                   cycleErrors, ttsSpeaks>>
    /\ UNCHANGED notCall

\* The finally block of the timeout callback.
CycleEnds(c) ==
    /\ isRecording' = FALSE
    /\ cycles' = cycles \ {c}
    /\ completedCycles' = completedCycles + 1

\* translateStream returns: speechToText gives one of its fixed sentences,
\* on which the last provider of translateText cannot fail, so the promise
\* always resolves.  A translation with text goes on to VoiceService.speak,
\* a blank one ends the cycle.
TranslateReturns(c, speakable) ==
    /\ c \in cycles /\ c.pc = "translating"
    /\ IF speakable
       THEN /\ cycles' = MoveCycle(c, "speaking")
            /\ UNCHANGED <<isRecording, completedCycles>>
       ELSE CycleEnds(c)
    /\ UNCHANGED <<callPhase, isTranslating, intervals, translationTimer,
                   voiceServiceIsRecording, cleanupStopping,
                   startRecordingCalls, cycleErrors, ttsSpeaks>>
    /\ UNCHANGED notCall

\* VoiceService.speak returns: Tts.speak took the translated text.
SpeakReturns(c) ==
    /\ c \in cycles /\ c.pc = "speaking"
    /\ ttsSpeaks' = ttsSpeaks + 1
    /\ CycleEnds(c)
    /\ UNCHANGED <<callPhase, isTranslating, intervals, translationTimer,
                   voiceServiceIsRecording, cleanupStopping,
                   startRecordingCalls, cycleErrors>>
    /\ UNCHANGED notCall

\* stopRecording, convertAudioToBase64 or speak throws: the inner catch,
\* then the finally block.
CycleFails(c) ==
    /\ c \in cycles /\ c.pc \in {"stopping", "reading", "speaking"}
    /\ cycleErrors' = cycleErrors + 1
    /\ isRecording' = IsRecordingAfterError
    /\ cycles' = cycles \ {c}
    /\ completedCycles' = completedCycles + 1
    /\ UNCHANGED <<callPhase, isTranslating, intervals, translationTimer,
                   voiceServiceIsRecording, cleanupStopping,
                   startRecordingCalls, ttsSpeaks>>
    /\ UNCHANGED notCall

NextCall ==
    \/ Connect
    \/ toggleTranslation
    \/ handleEndCall
    \/ CleanupStopReturns
    \/ CleanupStopFails
    \/ \E i \in intervals : Tick(i)
    \/ \E c \in cycles : StartStopReturns(c)
    \/ \E c \in cycles : StartReturns(c)
    \/ \E c \in cycles : StartFails(c)
    \/ \E c \in cycles : CaptureTimeout(c)
    \/ \E c \in cycles : StopReturns(c)
    \/ \E c \in cycles : ReadReturns(c)
    \/ \E c \in cycles, speakable \in BOOLEAN : TranslateReturns(c, speakable)
    \/ \E c \in cycles : SpeakReturns(c)
    \/ \E c \in cycles : CycleFails(c)

\* ------------------- VoiceService translate calls over SeamlessM4TService

\* Number of translateVoice / processRealTimeVoiceCloning calls.
MaxVoiceCalls == 2

\* Number of translateText calls.
MaxTextCalls == 2

VoiceMethods == {"translateVoice", "processRealTimeVoiceCloning"}

\* `ready` is what this call's own isReady query answered, "unasked" when
\* the call made none.
NoVoiceCall ==
    [method |-> "none", pc |-> "idle", route |-> "none", ready |-> "unasked",
     primaryInvocations |-> 0, primaryFailed |-> FALSE, outcome |-> "none"]

InitTranslate ==
    /\ seamlessIsInitialized = FALSE
    /\ isModelLoaded = FALSE
    /\ useNativeProcessing = TRUE
    /\ nativeProcessingProbed = FALSE
    /\ voiceCall = NoVoiceCall
    /\ voiceCalls = 0
    /\ tempFiles = {}
    /\ textCall = [pc |-> "idle", text |-> "hello",
                    sourceLanguage |-> "en", targetLanguage |-> "es"]
    /\ providerLog = <<>>
    /\ providerFailures = {}
    /\ textOutcome = [kind |-> "none"]
    /\ textCalls = 0

\* SeamlessM4TService.initialize: initializeModel loads the model and the
\* service marks itself initialized; every failure leaves both as they were.
SeamlessInitialize(success) ==
    /\ ~seamlessIsInitialized
    /\ seamlessIsInitialized' = success
    /\ isModelLoaded' = (isModelLoaded \/ success)
    /\ UNCHANGED <<useNativeProcessing, nativeProcessingProbed, voiceCall,
                   voiceCalls, tempFiles, textVars>>
    /\ UNCHANGED notTranslate

\* SeamlessM4TService.cleanup up to its await: the native unloadModel.
SeamlessCleanup ==
    /\ seamlessIsInitialized /\ isModelLoaded
    /\ isModelLoaded' = FALSE
    /\ UNCHANGED <<seamlessIsInitialized, useNativeProcessing,
                   nativeProcessingProbed, voiceCall, voiceCalls,
                   tempFiles, textVars>>
    /\ UNCHANGED notTranslate

\* unloadModel returned: cleanup clears isInitialized.
SeamlessCleanupReturns ==
    /\ seamlessIsInitialized /\ ~isModelLoaded
    /\ seamlessIsInitialized' = FALSE
    /\ UNCHANGED <<isModelLoaded, useNativeProcessing,
                   nativeProcessingProbed, voiceCall, voiceCalls,
                   tempFiles, textVars>>
    /\ UNCHANGED notTranslate

\* SeamlessM4TService.isReady.
isReady == seamlessIsInitialized /\ isModelLoaded

\* The probe VoiceService's constructor starts: the one place that writes
\* useNativeProcessing.
initializeNativeProcessing ==
    /\ ~nativeProcessingProbed
    /\ nativeProcessingProbed' = TRUE
    /\ useNativeProcessing' = isReady
    /\ UNCHANGED <<seamlessIsInitialized, isModelLoaded, voiceCall,
                   voiceCalls, tempFiles, textVars>>
    /\ UNCHANGED notTranslate

\* The call returns or throws to its caller.
Done(call, outcome) == [call EXCEPT !.pc = "idle", !.outcome = outcome]

\* VoiceService calls SeamlessM4TService.translateSpeechToSpeech, which
\* throws at once when the service is not initialized and else awaits the
\* native module.
SpeechToSpeech(call) ==
    IF seamlessIsInitialized
    THEN [call EXCEPT !.pc = "native", !.primaryInvocations = @ + 1]
    ELSE Done([call EXCEPT !.primaryInvocations = @ + 1], "error")

\* translateVoiceWithAPI up to its first await.
translateVoiceWithAPI(call) == SpeechToSpeech([call EXCEPT !.route = "api"])

\* processRealTimeAudioWithAPI up to its first await, the writeFile inside
\* SeamlessM4TService.processRealTimeAudio.
processRealTimeAudioWithAPI(call) ==
    [call EXCEPT !.route = "api", !.pc = "writing",
                 !.primaryInvocations = @ + 1]

\* The primary branch of either method once isReady answered true.
PrimaryBranch(call) ==
    IF call.method = "translateVoice"
    THEN SpeechToSpeech([call EXCEPT !.route = "primary"])
    ELSE [call EXCEPT !.route = "primary", !.pc = "writing",
                      !.primaryInvocations = @ + 1]

\* The branch either method labels its fallback.
FallbackBranch(call) ==
    IF call.method = "translateVoice"
    THEN translateVoiceWithAPI(call)
    ELSE processRealTimeAudioWithAPI(call)

\* translateVoice or processRealTimeVoiceCloning up to its first await:
\* `this.useNativeProcessing && await SeamlessM4TService.isReady()`.
BeginVoiceCall(method) ==
    /\ voiceCall.pc = "idle"
    /\ voiceCalls < MaxVoiceCalls
    /\ voiceCalls' = voiceCalls + 1
    /\ voiceCall' =
           IF useNativeProcessing
           THEN [NoVoiceCall EXCEPT !.method = method, !.pc = "isReady"]
           ELSE FallbackBranch([NoVoiceCall EXCEPT !.method = method])
    /\ UNCHANGED <<seamlessVars, tempFiles, textVars>>
    /\ UNCHANGED notTranslate

IsReadyReturns ==
    /\ voiceCall.pc = "isReady"
    /\ voiceCall' =
           IF isReady
           THEN PrimaryBranch([voiceCall EXCEPT !.ready = "yes"])
           ELSE FallbackBranch([voiceCall EXCEPT !.ready = "no"])
    /\ UNCHANGED <<seamlessVars, voiceCalls, tempFiles, textVars>>
    /\ UNCHANGED notTranslate

\* ---- translateVoice

\* nativeModule.translateSpeechToSpeech resolves.
TranslateVoiceNativeReturns ==
    /\ voiceCall.method = "translateVoice" /\ voiceCall.pc = "native"
    /\ voiceCall' = IF voiceCall.route = "primary"
                    THEN Done(voiceCall, "result")
                    ELSE [voiceCall EXCEPT !.pc = "copying"]
    /\ UNCHANGED <<seamlessVars, voiceCalls, tempFiles, textVars>>
    /\ UNCHANGED notTranslate

\* nativeModule.translateSpeechToSpeech rejects: every catch on the way
\* out rethrows.
TranslateVoiceNativeFails ==
    /\ voiceCall.method = "translateVoice" /\ voiceCall.pc = "native"
    /\ voiceCall' =
           IF voiceCall.route = "primary"
           THEN Done([voiceCall EXCEPT !.primaryFailed = TRUE],
                     "primaryError")
           ELSE Done(voiceCall, "error")
    /\ UNCHANGED <<seamlessVars, voiceCalls, tempFiles, textVars>>
    /\ UNCHANGED notTranslate

\* RNFS.copyFile of translateVoiceWithAPI.
TranslateVoiceCopyEnds(copied) ==
    /\ voiceCall.method = "translateVoice" /\ voiceCall.pc = "copying"
    /\ voiceCall' = Done(voiceCall, IF copied THEN "result" ELSE "error")
    /\ UNCHANGED <<seamlessVars, voiceCalls, tempFiles, textVars>>
    /\ UNCHANGED notTranslate

\* ---- processRealTimeVoiceCloning

\* SeamlessM4TService.processRealTimeAudio returned null: from the primary
\* branch the method goes on to processRealTimeAudioWithAPI; from there the
\* wrapper packs the null into a translationResult and the method goes on
\* to render it.
AudioReturnsNull(call) ==
    IF call.route = "primary"
    THEN processRealTimeAudioWithAPI([call EXCEPT !.primaryFailed = TRUE])
    ELSE [call EXCEPT !.pc = "rendering"]

\* audioChunk.id of the call in flight: each call brings a chunk of its own.
ChunkId == voiceCalls

\* RNFS.writeFile of the chunk returns; translateSpeechToSpeech is entered.
RealTimeWriteReturns ==
    /\ voiceCall.method = "processRealTimeVoiceCloning"
    /\ voiceCall.pc = "writing"
    /\ voiceCall' = IF seamlessIsInitialized
                    THEN [voiceCall EXCEPT !.pc = "native"]
                    ELSE AudioReturnsNull(voiceCall)
    /\ tempFiles' = tempFiles \cup {ChunkId}
    /\ UNCHANGED <<seamlessVars, voiceCalls, textVars>>
    /\ UNCHANGED notTranslate

\* The native translation, the unlink and the readFile return in turn.
RealTimeStepReturns ==
    /\ voiceCall.method = "processRealTimeVoiceCloning"
    /\ voiceCall.pc \in {"native", "unlinking", "reading"}
    /\ voiceCall' =
           [voiceCall EXCEPT !.pc = CASE @ = "native" -> "unlinking"
                                     [] @ = "unlinking" -> "reading"
                                     [] @ = "reading" -> "rendering"]
    /\ tempFiles' = IF voiceCall.pc = "unlinking"
                    THEN tempFiles \ {ChunkId} ELSE tempFiles
    /\ UNCHANGED <<seamlessVars, voiceCalls, textVars>>
    /\ UNCHANGED notTranslate

\* Any await of SeamlessM4TService.processRealTimeAudio throws: its catch
\* returns null.
RealTimeStepFails ==
    /\ voiceCall.method = "processRealTimeVoiceCloning"
    /\ voiceCall.pc \in {"writing", "native", "unlinking", "reading"}
    /\ voiceCall' = AudioReturnsNull(voiceCall)
    /\ UNCHANGED <<seamlessVars, voiceCalls, tempFiles, textVars>>
    /\ UNCHANGED notTranslate

\* The rest of processRealTimeVoiceCloning, voice cloning or TTS and the
\* read of its audio: a result, or null from the catch.
RealTimeRenderEnds(rendered) ==
    /\ voiceCall.method = "processRealTimeVoiceCloning"
    /\ voiceCall.pc = "rendering"
    /\ voiceCall' = Done(voiceCall, IF rendered THEN "result" ELSE "null")
    /\ UNCHANGED <<seamlessVars, voiceCalls, tempFiles, textVars>>
    /\ UNCHANGED notTranslate

\* --------------------------------------- TranslationService.translateText

\* A text that is not a string at run time.
NotAString == "<undefined>"

Texts == {"hello", "see you", NotAString}

\* The table of translateWithGoogle, cut to the entry the texts reach.
mockTranslations == [t \in {"hello"} |-> "hola"]

Languages == {"en", "es"}

\* Confidence of a result, in hundredths: what translateText stamps on an
\* OpenAI result, what translateWithGoogle stamps, and what
\* SeamlessM4TService stamps on every result of the on-device model.
OpenAIConfidence == 95

SeamlessConfidence == 95

GoogleConfidence == 85

\* translateWithGoogle: the table lookup, which throws on text that has no
\* toLowerCase; the catch rethrows the error it caught.
translateWithGoogle(text, sourceLanguage, targetLanguage) ==
    IF text = NotAString
    THEN [kind |-> "error", error |-> "TypeError"]
    ELSE [kind |-> "result",
          translatedText |-> IF text \in DOMAIN mockTranslations
                             THEN mockTranslations[text]
                             ELSE "[Translated: " \o text \o "]",
          sourceLanguage |-> sourceLanguage,
          targetLanguage |-> targetLanguage,
          confidence |-> GoogleConfidence]

\* What translateText's catch returns for the call in flight.
GoogleResult ==
    translateWithGoogle(textCall.text, textCall.sourceLanguage,
                        textCall.targetLanguage)

\* translateText up to the fetch of translateWithOpenAI.
TranslateText(text, sourceLanguage, targetLanguage) ==
    /\ textCall.pc = "idle"
    /\ textCalls < MaxTextCalls
    /\ textCalls' = textCalls + 1
    /\ textCall' = [pc |-> "fetching", text |-> text,
                     sourceLanguage |-> sourceLanguage,
                     targetLanguage |-> targetLanguage]
    /\ providerLog' = <<"openai">>
    /\ providerFailures' = {}
    /\ textOutcome' = [kind |-> "none"]
    /\ UNCHANGED <<seamlessVars, voiceCall, voiceCalls, tempFiles>>
    /\ UNCHANGED notTranslate

FetchReturns ==
    /\ textCall.pc = "fetching"
    /\ textCall' = [textCall EXCEPT !.pc = "parsing"]
    /\ UNCHANGED <<seamlessVars, voiceCall, voiceCalls, tempFiles,
                   providerLog,
                   providerFailures, textOutcome, textCalls>>
    /\ UNCHANGED notTranslate

\* response.json() resolves to a completion with a message.
OpenAIReturns ==
    /\ textCall.pc = "parsing"
    /\ textCall' = [textCall EXCEPT !.pc = "idle"]
    /\ textOutcome' = [kind |-> "result", translatedText |-> "openai",
                       sourceLanguage |-> textCall.sourceLanguage,
                       targetLanguage |-> textCall.targetLanguage,
                       confidence |-> OpenAIConfidence]
    /\ UNCHANGED <<seamlessVars, voiceCall, voiceCalls, tempFiles,
                   providerLog,
                   providerFailures, textCalls>>
    /\ UNCHANGED notTranslate

\* fetch rejects, or the body is no completion: translateText's catch
\* returns what translateWithGoogle gives.
OpenAIFails ==
    /\ textCall.pc \in {"fetching", "parsing"}
    /\ textCall' = [textCall EXCEPT !.pc = "idle"]
    /\ providerLog' = Append(providerLog, "google")
    /\ textOutcome' = GoogleResult
    /\ providerFailures' =
           IF GoogleResult.kind = "error"
           THEN {"openai", "google"} ELSE {"openai"}
    /\ UNCHANGED <<seamlessVars, voiceCall, voiceCalls, tempFiles, textCalls>>
    /\ UNCHANGED notTranslate

NextTranslate ==
    \/ \E success \in BOOLEAN : SeamlessInitialize(success)
    \/ SeamlessCleanup
    \/ SeamlessCleanupReturns
    \/ initializeNativeProcessing
    \/ \E method \in VoiceMethods : BeginVoiceCall(method)
    \/ IsReadyReturns
    \/ TranslateVoiceNativeReturns
    \/ TranslateVoiceNativeFails
    \/ \E copied \in BOOLEAN : TranslateVoiceCopyEnds(copied)
    \/ RealTimeWriteReturns
    \/ RealTimeStepReturns
    \/ RealTimeStepFails
    \/ \E rendered \in BOOLEAN : RealTimeRenderEnds(rendered)
    \/ \E text \in Texts, sourceLanguage \in Languages :
           \E targetLanguage \in Languages \ {sourceLanguage} :
               TranslateText(text, sourceLanguage, targetLanguage)
    \/ FetchReturns
    \/ OpenAIReturns
    \/ OpenAIFails

\* ------------- VoiceCloningService profile store, backend and persistence

\* Number of store calls (create, delete, set active, cleanup, compare).
MaxStoreCalls == 4

\* Audio samples, by what the speaker encoder extracts from them.
Samples == {"a", "b", "short"}

\* nativeModule.extractVoiceEmbeddings on a readable sample.
extractVoiceEmbeddings(sample) ==
    CASE sample = "a" -> <<1, 0>>
      [] sample = "b" -> <<0, 1>>
      [] sample = "short" -> <<1>>

\* The audioSamples lists createVoiceProfile is called with: none, one,
\* several of one embedding length, and lengths that differ with the
\* shorter embedding first or later.
SampleLists ==
    {<<>>, <<"a">>, <<"short">>, <<"a", "b">>, <<"b", "a", "a">>,
     <<"a", "short">>, <<"short", "a">>}

\* Ids callers pass: those the backend hands out and one it never does.
CallIds == 1..(MaxProfiles + 1)

\* A quotient num/den; 0/0 is NaN.
NaN == [num |-> 0, den |-> 0]

RECURSIVE SumAt(_, _, _)
\* embeddings[1][i] + ... + embeddings[k][i]
SumAt(embeddings, i, k) ==
    IF k = 0 THEN 0 ELSE SumAt(embeddings, i, k - 1) + embeddings[k][i]

\* The divisor of averageEmbeddings' last loop.
DividesBySize(embeddings) == Len(embeddings[1])

DividesByCount(embeddings) == Len(embeddings)

\* averageEmbeddings: the first embedding fixes the size; an index past the
\* end of a shorter embedding reads undefined and turns the sum into NaN.
averageEmbeddings(embeddings) ==
    IF Len(embeddings) = 0 THEN <<>>
    ELSE [i \in 1..Len(embeddings[1]) |->
             IF \E k \in 1..Len(embeddings) : i > Len(embeddings[k])
             THEN NaN
             ELSE [num |-> SumAt(embeddings, i, Len(embeddings)),
                   den |-> DividesByCount(embeddings)]]

\* JSON.stringify of the profile map: ids with their isActive flags and
\* embeddings.
Snapshot(ids, active, embeddings) ==
    [ids |-> ids, active |-> active, embeddings |-> embeddings]

NoStoreCall ==
    [op |-> "none", pc |-> "idle", id |-> 0, other |-> 0, samples |-> <<>>,
     extracted |-> <<>>, handed |-> <<>>,
     snapshot |-> Snapshot({}, {}, <<>>),
     outcome |-> "none", similarity |-> [kind |-> "none"]]

InitPersist ==
    /\ backendProfiles = <<>>
    /\ profileEmbeddings = <<>>
    /\ persisted = Snapshot({}, {}, <<>>)
    /\ storeCall = NoStoreCall
    /\ storeCalls = 0

\* A store method is called: one call is followed at a time.
BeginStoreCall ==
    /\ storeCall.pc = "idle"
    /\ storeCalls < MaxStoreCalls
    /\ storeCalls' = storeCalls + 1

\* The method returns or throws: its locals are gone.
StoreDone(call, outcome) ==
    [NoStoreCall EXCEPT !.op = call.op, !.id = call.id, !.outcome = outcome]

\* saveVoiceProfiles up to its writeFile: the snapshot is taken here.
SaveBegins(call, ids, active, embeddings) ==
    [call EXCEPT !.pc = "saving",
                 !.snapshot = Snapshot(ids, active, embeddings)]

\* The position after the loop over audioSamples has pushed `extracted`:
\* the next extraction, or averageEmbeddings and the native createVoiceProfile.
AfterExtraction(call, extracted) ==
    IF Len(extracted) < Len(call.samples)
    THEN [call EXCEPT !.pc = "extracting", !.extracted = extracted]
    ELSE [call EXCEPT !.pc = "creating", !.extracted = extracted,
                      !.handed = averageEmbeddings(extracted)]

\* Ids the backend can hand out: "profile_" + currentTimeMillis is new.
FreshIds ==
    ProfileIds \ (voiceProfiles \cup DOMAIN backendProfiles
                     \cup persisted.ids)

\* createVoiceProfile up to its first await.
CreateProfileBegins(samples) ==
    /\ BeginStoreCall
    /\ FreshIds # {}
    /\ storeCall' =
           IF ~isInitialized
           THEN StoreDone([NoStoreCall EXCEPT !.op = "create",
                                              !.samples = samples], "error")
           ELSE AfterExtraction([NoStoreCall EXCEPT !.op = "create",
                                                    !.samples = samples],
                                <<>>)
    /\ UNCHANGED <<storeVars, backendProfiles, profileEmbeddings, persisted>>
    /\ UNCHANGED notStore

\* extractVoiceEmbeddings resolves for the next sample.
ExtractReturns ==
    /\ storeCall.op = "create" /\ storeCall.pc = "extracting"
    /\ LET sample == storeCall.samples[Len(storeCall.extracted) + 1]
       IN storeCall' =
              AfterExtraction(storeCall,
                  Append(storeCall.extracted, extractVoiceEmbeddings(sample)))
    /\ UNCHANGED <<storeVars, backendProfiles, profileEmbeddings, persisted,
                   storeCalls>>
    /\ UNCHANGED notStore

\* extractVoiceEmbeddings rejects (the file cannot be loaded, the encoder
\* fails) and createVoiceProfile rethrows.
ExtractFails ==
    /\ storeCall.op = "create" /\ storeCall.pc = "extracting"
    /\ storeCall' = StoreDone(storeCall, "error")
    /\ UNCHANGED <<storeVars, backendProfiles, profileEmbeddings, persisted,
                   storeCalls>>
    /\ UNCHANGED notStore

\* f with key k set to v.
Put(f, k, v) == [x \in DOMAIN f \cup {k} |-> IF x = k THEN v ELSE f[x]]

\* f without key k.
Remove(f, k) == [x \in DOMAIN f \ {k} |-> f[x]]

\* The native createVoiceProfile puts the profile in its table and
\* resolves; the service stores the profile, inactive, and starts the save.
NativeCreateReturns(p) ==
    /\ storeCall.op = "create" /\ storeCall.pc = "creating"
    /\ p \in FreshIds
    /\ backendProfiles' = Put(backendProfiles, p, storeCall.handed)
    /\ profileEmbeddings' = Put(profileEmbeddings, p, storeCall.handed)
    /\ voiceProfiles' = voiceProfiles \cup {p}
    /\ activeIds' = activeIds \ {p}
    /\ storeCall' = SaveBegins([storeCall EXCEPT !.id = p],
                               voiceProfiles \cup {p}, activeIds \ {p},
                               Put(profileEmbeddings, p, storeCall.handed))
    /\ UNCHANGED <<isInitialized, persisted, storeCalls>>
    /\ UNCHANGED notStore

\* The native createVoiceProfile rejects: what crossing the bridge makes of
\* a NaN is not fixed, and reading it as a double may throw.
NativeCreateFails ==
    /\ storeCall.op = "create" /\ storeCall.pc = "creating"
    /\ \E i \in 1..Len(storeCall.handed) : storeCall.handed[i] = NaN
    /\ storeCall' = StoreDone(storeCall, "error")
    /\ UNCHANGED <<storeVars, backendProfiles, profileEmbeddings, persisted,
                   storeCalls>>
    /\ UNCHANGED notStore

\* RNFS.writeFile of saveVoiceProfiles ends; a failure is logged and
\* swallowed, so the method returns normally either way.
SaveEnds(written) ==
    /\ storeCall.pc = "saving"
    /\ persisted' = IF written THEN storeCall.snapshot ELSE persisted
    /\ storeCall' = StoreDone(storeCall, "ok")
    /\ UNCHANGED <<storeVars, backendProfiles, profileEmbeddings, storeCalls>>
    /\ UNCHANGED notStore

\* deleteVoiceProfile up to its await on the native cleanupVoiceProfile.
DeleteProfileBegins(p) ==
    /\ BeginStoreCall
    /\ storeCall' = [NoStoreCall EXCEPT !.op = "delete", !.id = p,
                                        !.pc = "cleaning"]
    /\ UNCHANGED <<storeVars, backendProfiles, profileEmbeddings, persisted>>
    /\ UNCHANGED notStore

\* cleanupVoiceProfile removes the id from the backend's table and
\* resolves; the service deletes the id from its map and starts the save.
NativeCleanupReturns ==
    /\ storeCall.op = "delete" /\ storeCall.pc = "cleaning"
    /\ backendProfiles' = Remove(backendProfiles, storeCall.id)
    /\ profileEmbeddings' = Remove(profileEmbeddings, storeCall.id)
    /\ voiceProfiles' = voiceProfiles \ {storeCall.id}
    /\ activeIds' = activeIds \ {storeCall.id}
    /\ storeCall' = SaveBegins(storeCall, voiceProfiles \ {storeCall.id},
                               activeIds \ {storeCall.id},
                               Remove(profileEmbeddings, storeCall.id))
    /\ UNCHANGED <<isInitialized, persisted, storeCalls>>
    /\ UNCHANGED notStore

\* The map after a native cleanupVoiceProfile that rejected: the delete in
\* deleteVoiceProfile comes after the await.
StoreClearedFirst(p) == voiceProfiles \ {p}

StoreAfterFailedCleanup(p) == voiceProfiles

\* cleanupVoiceProfile rejects: deleteVoiceProfile's catch rethrows.
NativeCleanupFails ==
    /\ storeCall.op = "delete" /\ storeCall.pc = "cleaning"
    /\ voiceProfiles' = StoreAfterFailedCleanup(storeCall.id)
    /\ storeCall' = StoreDone(storeCall, "error")
    /\ UNCHANGED <<isInitialized, activeIds, backendProfiles,
                   profileEmbeddings, persisted, storeCalls>>
    /\ UNCHANGED notStore

\* setActiveProfile up to its await: every flag is cleared, and only a
\* profile that is found is flagged and saved.
SetActiveProfileBegins(p) ==
    /\ BeginStoreCall
    /\ activeIds' = ActiveAfterSet(p)
    /\ storeCall' =
           IF p \in voiceProfiles
           THEN SaveBegins([NoStoreCall EXCEPT !.op = "setActive", !.id = p],
                           voiceProfiles, ActiveAfterSet(p),
                           profileEmbeddings)
           ELSE StoreDone([NoStoreCall EXCEPT !.op = "setActive", !.id = p],
                          "ok")
    /\ UNCHANGED <<isInitialized, voiceProfiles, backendProfiles,
                   profileEmbeddings, persisted>>
    /\ UNCHANGED notStore

\* cleanup: the backend drops every profile of the map, the map is
\* cleared; nothing is saved.
CleanupStore ==
    /\ BeginStoreCall
    /\ isInitialized
    /\ backendProfiles' =
           [x \in DOMAIN backendProfiles \ voiceProfiles |->
               backendProfiles[x]]
    /\ profileEmbeddings' = <<>>
    /\ voiceProfiles' = {}
    /\ activeIds' = {}
    /\ isInitialized' = FALSE
    /\ storeCall' = StoreDone([NoStoreCall EXCEPT !.op = "cleanup"], "ok")
    /\ UNCHANGED persisted
    /\ UNCHANGED notStore

\* The process is started again: the backend's table is gone, the
\* constructor's loadVoiceProfiles fills the map from the file.
Restart ==
    /\ storeCall.pc = "idle"
    /\ storeCall.op # "none"
    /\ isInitialized' = FALSE
    /\ voiceProfiles' = persisted.ids
    /\ activeIds' = persisted.active
    /\ backendProfiles' = <<>>
    /\ profileEmbeddings' = persisted.embeddings
    /\ storeCall' = NoStoreCall
    /\ UNCHANGED <<persisted, storeCalls>>
    /\ UNCHANGED notStore

\* initialize, as the store calls see it.
InitializeStore ==
    /\ storeCall.pc = "idle"
    /\ ~isInitialized
    /\ isInitialized' = TRUE
    /\ UNCHANGED <<voiceProfiles, activeIds, persistVars>>
    /\ UNCHANGED notStore

\* The number dot / (sqrt(norm1) * sqrt(norm2)); it is NaN when a norm is 0.
Similarity(dot, norm1, norm2) ==
    [kind |-> "number", dot |-> dot, norm1 |-> norm1, norm2 |-> norm2]

\* The number 0.
Zero == Similarity(0, 1, 1)

RECURSIVE DotProduct(_, _, _)
\* vector1[1] * vector2[1] + ... + vector1[k] * vector2[k], on the
\* numerators: the quotient below does not depend on the denominators.
DotProduct(vector1, vector2, k) ==
    IF k = 0 THEN 0
    ELSE DotProduct(vector1, vector2, k - 1)
             + vector1[k].num * vector2[k].num

\* calculateCosineSimilarity: 0 for vectors of different lengths, and
\* otherwise the quotient, with no test for a zero norm.
calculateCosineSimilarity(vector1, vector2) ==
    IF Len(vector1) # Len(vector2) THEN Zero
    ELSE IF \E i \in 1..Len(vector1) : NaN \in {vector1[i], vector2[i]}
    THEN Similarity(0, 0, 0)
    ELSE Similarity(DotProduct(vector1, vector2, Len(vector1)),
                    DotProduct(vector1, vector1, Len(vector1)),
                    DotProduct(vector2, vector2, Len(vector1)))

\* compareVoices returns.
Compared(p1, p2, similarity) ==
    [NoStoreCall EXCEPT !.op = "compare", !.id = p1, !.other = p2,
                        !.outcome = "ok", !.similarity = similarity]

\* compareVoices up to its await; not initialized, the throw is caught and
\* 0 is returned.
CompareVoicesBegins(p1, p2) ==
    /\ BeginStoreCall
    /\ storeCall' =
           IF ~isInitialized
           THEN Compared(p1, p2, Zero)
           ELSE [NoStoreCall EXCEPT !.op = "compare", !.id = p1,
                                    !.other = p2, !.pc = "comparing"]
    /\ UNCHANGED <<storeVars, backendProfiles, profileEmbeddings, persisted>>
    /\ UNCHANGED notStore

\* The native compareVoiceProfiles rejects for a profile it does not have,
\* and the catch returns 0; otherwise it resolves with the similarity.
NativeCompareEnds ==
    /\ storeCall.op = "compare" /\ storeCall.pc = "comparing"
    /\ storeCall' =
           IF {storeCall.id, storeCall.other} \subseteq DOMAIN backendProfiles
           THEN Compared(storeCall.id, storeCall.other,
                         calculateCosineSimilarity(
                             backendProfiles[storeCall.id],
                             backendProfiles[storeCall.other]))
           ELSE Compared(storeCall.id, storeCall.other, Zero)
    /\ UNCHANGED <<storeVars, backendProfiles, profileEmbeddings, persisted,
                   storeCalls>>
    /\ UNCHANGED notStore

\* ---- translateWithVoiceCloning, preserveVoice true

\* `temp_${Date.now()}`: not an id the backend hands out.
TempProfileId == MaxProfiles + 2

\* The number[] the bridge hands to the native createVoiceProfile.
AsEmbedding(numbers) ==
    [i \in 1..Len(numbers) |-> [num |-> numbers[i], den |-> 1]]

\* translateWithVoiceCloning up to its await on extractVoiceEmbeddings.
CloneBegins(sample) ==
    /\ BeginStoreCall
    /\ FreshIds # {}
    /\ storeCall' = [NoStoreCall EXCEPT !.op = "clone",
                                        !.pc = "cloneExtracting",
                                        !.samples = <<sample>>]
    /\ UNCHANGED <<storeVars, backendProfiles, profileEmbeddings, persisted>>
    /\ UNCHANGED notStore

\* extractVoiceEmbeddings resolves: the native createVoiceProfile is called
\* with the temporary id as its profileName.
CloneExtractReturns ==
    /\ storeCall.op = "clone" /\ storeCall.pc = "cloneExtracting"
    /\ storeCall' =
           [storeCall EXCEPT
               !.pc = "cloneCreating",
               !.handed =
                   AsEmbedding(extractVoiceEmbeddings(storeCall.samples[1]))]
    /\ UNCHANGED <<storeVars, backendProfiles, profileEmbeddings, persisted,
                   storeCalls>>
    /\ UNCHANGED notStore

\* extractVoiceEmbeddings or the native createVoiceProfile rejects: the
\* catch rethrows.
CloneNativeFails ==
    /\ storeCall.op = "clone"
    /\ storeCall.pc \in {"cloneExtracting", "cloneCreating"}
    /\ storeCall' = StoreDone(storeCall, "error")
    /\ UNCHANGED <<storeVars, backendProfiles, profileEmbeddings, persisted,
                   storeCalls>>
    /\ UNCHANGED notStore

\* The native createVoiceProfile puts the profile in its table under an id
\* of its own, p, which the call does not read; the call goes on to
\* synthesizeVoiceWithCloning(translatedText, tempProfileId, ...), which
\* looks the temporary id up in the service's map.  The map holds only ids
\* the backend returned to createVoiceProfile, so the lookup fails, the
\* throw skips cleanupVoiceProfile and the catch rethrows.
CloneCreateReturns(p) ==
    /\ storeCall.op = "clone" /\ storeCall.pc = "cloneCreating"
    /\ p \in FreshIds
    /\ ~Accepts(TempProfileId)
    /\ backendProfiles' = Put(backendProfiles, p, storeCall.handed)
    /\ storeCall' = StoreDone([storeCall EXCEPT !.id = p], "error")
    /\ UNCHANGED <<storeVars, profileEmbeddings, persisted, storeCalls>>
    /\ UNCHANGED notStore

NextStore ==
    \/ InitializeStore
    \/ \E samples \in SampleLists : CreateProfileBegins(samples)
    \/ ExtractReturns
    \/ ExtractFails
    \/ \E p \in ProfileIds : NativeCreateReturns(p)
    \/ NativeCreateFails
    \/ \E written \in BOOLEAN : SaveEnds(written)
    \/ \E p \in CallIds : DeleteProfileBegins(p)
    \/ NativeCleanupReturns
    \/ NativeCleanupFails
    \/ \E p \in CallIds : SetActiveProfileBegins(p)
    \/ CleanupStore
    \/ \E p1, p2 \in CallIds : CompareVoicesBegins(p1, p2)
    \/ NativeCompareEnds
    \/ \E sample \in Samples : CloneBegins(sample)
    \/ CloneExtractReturns
    \/ CloneNativeFails
    \/ \E p \in ProfileIds : CloneCreateReturns(p)
    \/ Restart

\* ------------------------------ language detection over SeamlessM4TService

\* Number of detection calls.
MaxDetectCalls == 2

\* SEAMLESS_LANGUAGE_MAP, two of its entries.
SEAMLESS_LANGUAGE_MAP == [en |-> "eng", es |-> "spa"]

\* What nativeModule.detectLanguage can resolve with: codes of the table
\* and one that is not in it.
BackendCodes == {"eng", "spa", "yue"}

DetectMethods ==
    {"detectLanguage", "detectLanguageFromAudio", "detectLanguageWithAPI"}

\* The code returned unmapped.
Unmapped(detectedLang) == detectedLang

\* The loop over Object.entries(SEAMLESS_LANGUAGE_MAP): the standard code
\* of the entry whose value is detectedLang, detectedLang when there is none.
StandardCode(detectedLang) ==
    IF \E standardCode \in DOMAIN SEAMLESS_LANGUAGE_MAP :
           SEAMLESS_LANGUAGE_MAP[standardCode] = detectedLang
    THEN CHOOSE standardCode \in DOMAIN SEAMLESS_LANGUAGE_MAP :
             SEAMLESS_LANGUAGE_MAP[standardCode] = detectedLang
    ELSE detectedLang

\* `failed`: the backend was not initialized or its call failed;
\* `detectedLang`: what the backend resolved with.
NoDetectCall ==
    [method |-> "none", pc |-> "idle", failed |-> FALSE,
     detectedLang |-> "none", outcome |-> [kind |-> "none"]]

InitDetect ==
    /\ detectCall = NoDetectCall
    /\ detectCalls = 0

\* The call returns a language code.
Detected(call, language) ==
    [call EXCEPT !.pc = "idle",
                 !.outcome = [kind |-> "returned", language |-> language]]

\* SeamlessM4TService.detectLanguage up to its await: not initialized, the
\* throw is caught and 'en' returned.
SeamlessDetectLanguage(call) ==
    IF seamlessIsInitialized
    THEN [call EXCEPT !.pc = "native"]
    ELSE Detected([call EXCEPT !.failed = TRUE], "en")

\* One of the three methods is called and runs to its first await.
DetectBegins(method) ==
    /\ detectCall.pc = "idle"
    /\ detectCalls < MaxDetectCalls
    /\ detectCalls' = detectCalls + 1
    /\ detectCall' =
           IF method = "detectLanguageFromAudio" /\ useNativeProcessing
           THEN [NoDetectCall EXCEPT !.method = method, !.pc = "isReady"]
           ELSE SeamlessDetectLanguage([NoDetectCall EXCEPT !.method = method])
    /\ UNCHANGED seamlessVars
    /\ UNCHANGED notDetect

\* isReady answered: both branches of detectLanguageFromAudio end in
\* SeamlessM4TService.detectLanguage.
DetectIsReadyReturns ==
    /\ detectCall.pc = "isReady"
    /\ detectCall' = SeamlessDetectLanguage(detectCall)
    /\ UNCHANGED <<seamlessVars, detectCalls>>
    /\ UNCHANGED notDetect

\* nativeModule.detectLanguage resolves with a code.
NativeDetectReturns(detectedLang) ==
    /\ detectCall.pc = "native"
    /\ isModelLoaded
    /\ detectCall' = Detected([detectCall EXCEPT !.detectedLang = detectedLang],
                              StandardCode(detectedLang))
    /\ UNCHANGED <<seamlessVars, detectCalls>>
    /\ UNCHANGED notDetect

\* nativeModule.detectLanguage rejects (MODEL_NOT_LOADED, AUDIO_LOAD_FAILED,
\* DETECTION_FAILED): the catch returns 'en'.
NativeDetectFails ==
    /\ detectCall.pc = "native"
    /\ detectCall' = Detected([detectCall EXCEPT !.failed = TRUE], "en")
    /\ UNCHANGED <<seamlessVars, detectCalls>>
    /\ UNCHANGED notDetect

NextDetect ==
    \/ \E success \in BOOLEAN : SeamlessInitialize(success)
    \/ SeamlessCleanup
    \/ SeamlessCleanupReturns
    \/ initializeNativeProcessing
    \/ \E method \in DetectMethods : DetectBegins(method)
    \/ DetectIsReadyReturns
    \/ \E detectedLang \in BackendCodes : NativeDetectReturns(detectedLang)
    \/ NativeDetectFails

\* ------------------------------- the synthesis queue across the end of a call

\* processRealTimeVoiceCloning with a profile id, called for a chunk of the
\* call in progress: synthesizeVoiceWithCloning with quality 'medium' and
\* no characteristics.
RealTimeSubmit(p) ==
    /\ callPhase = "active"
    /\ Submit(p, FALSE, "medium")

\* ------------------------------ the reducer under the context's functions

\* The VoiceProfile values the context's functions are called with.
PayloadProfiles == [id : 1..MaxScreenProfiles, isActive : BOOLEAN]

\* The lists loadProfiles is called with.
PayloadLists ==
    UNION {[1..n -> PayloadProfiles] : n \in 0..MaxScreenProfiles}

\* One of addProfile, updateProfile, deleteProfile, setActiveProfile and
\* loadProfiles: dispatch of the action it builds.
Dispatch(type, payload) ==
    /\ type = "ADD_PROFILE" =>
           Len(profileState.profiles) < MaxScreenProfiles
    /\ profileState' = Dispatched(profileState, type, payload)
    /\ UNCHANGED <<training, nextScreenId, notReducer>>

NextReducer ==
    \/ \E profile \in PayloadProfiles : Dispatch("ADD_PROFILE", profile)
    \/ \E profile \in PayloadProfiles : Dispatch("UPDATE_PROFILE", profile)
    \/ \E profileId \in 1..MaxScreenProfiles :
           Dispatch("DELETE_PROFILE", profileId)
    \/ \E profile \in PayloadProfiles \cup {NoProfile} :
           Dispatch("SET_ACTIVE_PROFILE", profile)
    \/ \E profiles \in PayloadLists : Dispatch("LOAD_PROFILES", profiles)

\* The queue fed with every kind of options.
NextPasses ==
    \/ Initialize
    \/ \E p \in ProfileIds : CreateVoiceProfile(p)
    \/ \E p \in ProfileIds, chars \in BOOLEAN, quality \in AllQualities :
          Submit(p, chars, quality)
    \/ \E w \in workers : PassReturns(w)
    \/ \E w \in workers : PassFails(w)
    \/ \E w \in workers : WorkerResumes(w)

NextHangup ==
    \/ Initialize
    \/ \E p \in ProfileIds : CreateVoiceProfile(p)
    \/ Connect
    \/ handleEndCall
    \/ \E p \in ProfileIds : RealTimeSubmit(p)
    \/ \E w \in workers : PassReturns(w)
    \/ \E w \in workers : PassFails(w)
    \/ \E w \in workers : WorkerResumes(w)

\* ----------------------------------------------------- specifications

Init ==
    InitStore /\ InitQueue /\ InitReducer /\ InitCall /\ InitTranslate
    /\ InitPersist /\ InitDetect

Next ==
    \/ Initialize
    \/ Cleanup
    \/ \E p \in ProfileIds : CreateVoiceProfile(p)
    \/ \E p \in ProfileIds : DeleteVoiceProfile(p)
    \/ \E p \in ProfileIds : SubmitRefused(p)
    \/ \E p \in ProfileIds, chars \in BOOLEAN, quality \in Qualities :
          Submit(p, chars, quality)
    \/ \E w \in workers : PassReturns(w)
    \/ \E w \in workers : PassFails(w)
    \/ \E w \in workers : WorkerResumes(w)

Spec == Init /\ [][Next]_vars

\* Every native call eventually returns or fails, and a settled
\* performVoiceSynthesis promise resumes the worker awaiting it.
LiveSpec ==
    /\ Init
    /\ [][Next]_vars
    /\ WF_vars(\E w \in workers : PassReturns(w) \/ PassFails(w))
    /\ WF_vars(\E w \in workers : WorkerResumes(w))


ProfileSpec == Init /\ [][NextProfile]_vars

CallSpec == Init /\ [][NextCall]_vars

TranslateSpec == Init /\ [][NextTranslate]_vars

StoreSpec == Init /\ [][NextStore]_vars

DetectSpec == Init /\ [][NextDetect]_vars

HangupSpec == Init /\ [][NextHangup]_vars

PassSpec == Init /\ [][NextPasses]_vars

ReducerSpec == Init /\ [][NextReducer]_vars

\* ------------------------------------------------ claims on the queue

Settled == {"resolved", "rejected"}

\* C1: at most one processSynthesisQueue activation exists, and at most one
\* performVoiceSynthesis call is pending, in every reachable state, whenever
\* the submissions arrive.
C1_AtMostOneInFlight ==
    /\ Cardinality(workers) <= 1
    /\ Cardinality({w \in workers : w.pc \in InSynthesis}) <= 1

\* A submission arrived while the worker was suspended on a native call.
C1_Witness ==
    \E w \in workers : w.pc \in InSynthesis /\ Len(synthesisQueue) > 0

\* C2: promises are settled in the order the requests were accepted, and a
\* request's synthesis has begun only if every request accepted before it
\* is settled.
C2_SettledInSubmissionOrder ==
    /\ Len(settleOrder) <= Len(accepted)
    /\ \A i \in 1..Len(settleOrder) : settleOrder[i] = accepted[i]
    /\ \A i, j \in 1..Len(accepted) :
          (i < j /\ accepted[j] \in started)
              => settled[accepted[i]] \in Settled

\* Three requests were settled, two of them queued behind a running worker.
C2_Witness ==
    /\ Len(settleOrder) >= 3
    /\ activations = 1

\* C3: the step that rejects one request changes no other request's promise,
\* drops nothing from the queue, and leaves the worker processing the next
\* queued request.
C3_RejectionIsLocal ==
    [][\A w \in workers :
          (w.pc = "rejected" /\ settled[w.req.id] = "pending"
             /\ settled'[w.req.id] # "pending")
          => /\ settled'[w.req.id] = "rejected"
             /\ \A r \in RequestIds \ {w.req.id} : settled'[r] = settled[r]
             /\ Len(synthesisQueue) > 0
                   => /\ isProcessing'
                      /\ synthesisQueue' = Tail(synthesisQueue)
                      /\ \E v \in workers' :
                            /\ v.req = Head(synthesisQueue)
                            /\ v.pc = "synthesize"]_vars

\* A request was rejected and one queued behind it was resolved afterwards.
C3_Witness ==
    \E i, j \in 1..Len(settleOrder) :
        /\ i < j
        /\ settled[settleOrder[i]] = "rejected"
        /\ settled[settleOrder[j]] = "resolved"
        /\ activations = 1

\* C4: a request is never waiting in the queue without a worker, the worker
\* gives up isProcessing only with the queue empty, and under LiveSpec every
\* accepted request is eventually resolved or rejected.
C4_EveryRequestSettles ==
    /\ [](Len(synthesisQueue) > 0 => (isProcessing /\ workers # {}))
    /\ [](workers = {} => ~isProcessing)
    /\ [][(isProcessing /\ ~isProcessing') => synthesisQueue' = <<>>]_vars
    /\ \A r \in RequestIds :
          (settled[r] = "pending") ~> (settled[r] \in Settled)

\* A worker exited, a later submission started a second one, and both
\* requests are settled.
C4_Witness ==
    /\ activations >= 2
    /\ workers = {}
    /\ \A i \in 1..Len(accepted) : settled[accepted[i]] \in Settled

\* ------------------------------------------- claims on the profile stores

ActiveInList ==
    {k \in 1..Len(profileState.profiles) : profileState.profiles[k].isActive}

\* C5: at most one profile carries the active flag, in the VoiceCloningService
\* map and in the reducer's profile list, after any sequence of profile
\* operations.
C5_AtMostOneActive ==
    /\ Cardinality(activeIds) <= 1
    /\ Cardinality(ActiveInList) <= 1

\* ------------------------------------------- claims on the call loop

\* C6: a tick of the call loop never starts a new capture while a cycle is
\* still in flight: the number of VoiceService.startRecording calls never
\* exceeds the number of completed cycles plus one.
C6_NoCaptureWhileCycleInFlight ==
    startRecordingCalls <= completedCycles + 1

\* C7: once the call is ended (handleEndCall, or the unmount), no
\* continuation of a cycle that had already started hands translated text
\* to the TTS adapter.
C7_NoSpeechAfterEndCall ==
    [][callPhase = "ended" => ttsSpeaks' = ttsSpeaks]_vars

\* C8: an error raised in a cycle is caught there: the step that logs it
\* leaves every installed interval and the timer ref alone and resets
\* isRecording to false, and no cycle is left behind by it.
C8_ErrorKeepsLoopRunning ==
    [][cycleErrors' > cycleErrors =>
          /\ intervals' = intervals
          /\ translationTimer' = translationTimer
          /\ isRecording' = FALSE
          /\ Cardinality(cycles') < Cardinality(cycles)]_vars

\* A cycle failed while the interval stayed installed, and a tick after the
\* failure has started the next cycle.
C8_Witness ==
    /\ cycleErrors >= 1
    /\ \E i \in intervals : i.id = translationTimer /\ ~i.isRecording
    /\ \E c \in cycles : c.errorsBefore >= 1

\* ------------------------------------------- claims on the translate calls

\* C9: when the primary backend was ready and its invocation failed, the
\* call does not end with the primary's error, and VoiceService invokes
\* the primary backend at most once within the call.
C9_FailedPrimaryFallsBack ==
    voiceCall.primaryFailed =>
        /\ voiceCall.outcome # "primaryError"
        /\ voiceCall.primaryInvocations <= 1

C11_ReadinessQueriedAtCallTime ==
    voiceCall.route # "none" =>
        /\ voiceCall.ready # "unasked"
        /\ voiceCall.ready = "yes" => voiceCall.primaryInvocations >= 1
        /\ voiceCall.ready = "no" => voiceCall.primaryInvocations = 0

\* C12: a TranslationResult that translateText hands back, from either of
\* its providers, carries the caller's source and target language codes
\* and a confidence within [0,1] that is strictly below the 0.95 stamped by
\* the on-device backend.
C12_FallbackConfidenceBelowPrimary ==
    textOutcome.kind = "result" =>
        /\ textOutcome.sourceLanguage = textCall.sourceLanguage
        /\ textOutcome.targetLanguage = textCall.targetLanguage
        /\ textOutcome.confidence >= 0 /\ textOutcome.confidence <= 100
        /\ textOutcome.confidence < SeamlessConfidence

\* C13: whenever processRealTimeVoiceCloning has returned, with a result
\* or with null, no temporary audio file written for a chunk is left: the
\* set of temporary files is empty between calls.
C13_NoTempFileLeftBehind ==
    voiceCall.pc = "idle" => tempFiles = {}

\* ------------------------------------- claims on the profile store's calls

\* C14: once a mutation of the profile store (createVoiceProfile,
\* setActiveProfile, deleteVoiceProfile, cleanup) has completed, the
\* persisted collection equals the in-memory store: same ids, same flags.
C14_PersistedEqualsStore ==
    (/\ storeCall.op \in {"create", "setActive", "delete", "cleanup"}
     /\ storeCall.pc = "idle"
     /\ storeCall.outcome = "ok")
    => persisted = Snapshot(voiceProfiles, activeIds, profileEmbeddings)

\* C15: deleteVoiceProfile is idempotent: no step of a delete of an id that
\* is in neither the local store, the backend's table nor the persisted
\* collection changes any of the three, and once the backend has answered
\* the call does not fail.
C15_DeleteIsIdempotent ==
    [][(/\ storeCall.op = "delete"
        /\ storeCall.pc # "idle"
        /\ storeCall.id \notin voiceProfiles
        /\ storeCall.id \notin DOMAIN backendProfiles
        /\ storeCall.id \notin persisted.ids)
       => /\ UNCHANGED <<voiceProfiles, activeIds, backendProfiles,
                         persisted>>
          /\ storeCall.pc = "saving" => storeCall'.outcome # "error"]_vars

\* C16: setActiveProfile with an id that is not in the store is a no-op:
\* no profile's active flag changes and the persisted collection is
\* unchanged.
C16_SetActiveUnknownIsNoOp ==
    [][\A p \in CallIds :
          (SetActiveProfileBegins(p) /\ p \notin voiceProfiles)
          => UNCHANGED <<voiceProfiles, activeIds, persisted>>]_vars

\* C17: a createVoiceProfile call with N >= 1 samples whose embeddings all
\* have one length makes one extraction per sample, in order, and the
\* embedding it hands to the backend, and that the backend and the store
\* keep, is the element-wise mean: sum of the samples' elements over N.
C17_EmbeddingIsElementwiseMean ==
    LET e == storeCall.extracted
        N == Len(storeCall.samples)
        id == storeCall.id
    IN  (/\ storeCall.op = "create"
         /\ storeCall.pc \in {"creating", "saving"}
         /\ N >= 1
         /\ \A k \in 1..Len(e) : Len(e[k]) = Len(e[1]))
        => /\ Len(e) = N
           /\ \A k \in 1..N :
                  e[k] = extractVoiceEmbeddings(storeCall.samples[k])
           /\ Len(storeCall.handed) = Len(e[1])
           /\ \A i \in 1..Len(e[1]) :
                  /\ storeCall.handed[i].num = SumAt(e, i, N)
                  /\ storeCall.handed[i].den = N
           /\ id # 0 => /\ backendProfiles[id] = storeCall.handed
                        /\ profileEmbeddings[id] = storeCall.handed

\* [1, 0] and [0, 1] have been averaged to [1/2, 1/2], stored and saved.
C17_Witness ==
    /\ storeCall.op = "create" /\ storeCall.outcome = "ok"
    /\ storeCall.id \in voiceProfiles
    /\ profileEmbeddings[storeCall.id] =
           <<[num |-> 1, den |-> 2], [num |-> 1, den |-> 2]>>
    /\ backendProfiles = profileEmbeddings
    /\ persisted.embeddings = profileEmbeddings

\* C18: a createVoiceProfile call with an empty sample list fails: no step
\* of it puts a profile in the backend's table, the store or the persisted
\* collection, and it does not return normally.
C18_EmptySamplesCreateNothing ==
    [][(/\ storeCall.op = "create"
        /\ storeCall.pc # "idle"
        /\ storeCall.samples = <<>>)
       => /\ UNCHANGED <<voiceProfiles, backendProfiles, persisted>>
          /\ storeCall'.outcome # "ok"]_vars

\* C19: a createVoiceProfile call whose samples' embeddings differ in
\* length never averages them: it does not get to hand an embedding to the
\* backend or to store a profile.
C19_DifferingLengthsRejected ==
    LET e == storeCall.extracted
    IN  (/\ storeCall.op = "create"
         /\ \E j, k \in 1..Len(e) : Len(e[j]) # Len(e[k]))
        => storeCall.pc \notin {"creating", "saving"}

\* C20: compareVoices never raises, and what it returns is 0 when the
\* service is not initialized, when the backend does not have one of the
\* ids, or when the two embedding vectors are both empty, and the
\* backend's cosine similarity otherwise.
C20_CompareVoicesNeverRaises ==
    [][(/\ storeCall'.op = "compare"
        /\ storeCall'.pc = "idle"
        /\ storeCall' # storeCall)
       => LET p1 == storeCall'.id
              p2 == storeCall'.other
          IN  /\ storeCall'.outcome = "ok"
              /\ storeCall'.similarity =
                     IF \/ ~isInitialized
                        \/ ~({p1, p2} \subseteq DOMAIN backendProfiles)
                     THEN Zero
                     ELSE IF /\ backendProfiles[p1] = <<>>
                             /\ backendProfiles[p2] = <<>>
                     THEN Zero
                     ELSE calculateCosineSimilarity(backendProfiles[p1],
                                                    backendProfiles[p2])]_vars

\* ------------------------------------- claims on language detection

\* C21: a language-detection call never raises: it returns 'en' when the
\* backend was not initialized or its call failed, and on success the
\* application-level code of a backend code that is in the language table
\* ('eng' gives 'en', 'spa' gives 'es') and any other backend code as it is.
C21_DetectionNeverRaises ==
    /\ detectCall.outcome.kind \in {"none", "returned"}
    /\ (detectCall.method # "none" /\ detectCall.pc = "idle") =>
           /\ detectCall.outcome.kind = "returned"
           /\ detectCall.outcome.language =
                  CASE detectCall.failed -> "en"
                    [] ~detectCall.failed /\ detectCall.detectedLang = "eng"
                         -> "en"
                    [] ~detectCall.failed /\ detectCall.detectedLang = "spa"
                         -> "es"
                    [] OTHER -> detectCall.detectedLang

\* detectLanguageFromAudio has returned 'es' for the backend's 'spa'.
C21_Witness ==
    /\ detectCall.method = "detectLanguageFromAudio"
    /\ detectCall.pc = "idle"
    /\ ~detectCall.failed
    /\ detectCall.detectedLang = "spa"
    /\ detectCall.outcome = [kind |-> "returned", language |-> "es"]

\* ------------------------------------- claims on the queue at hangup

\* C22: once the call has been ended, no request still waiting in the
\* synthesis queue is handed to the synthesis backend (the requests of the
\* call are all submitted before its end, so none is started after it).
C22_HangupDropsQueuedRequests ==
    [][callPhase = "ended" => started' = started]_vars

\* C23: a request pending when cleanup unloads the service is not resolved
\* afterwards: the step that resolves a request's promise is taken with the
\* service initialized (a request is accepted only by an initialized
\* service, so an uninitialized one means an unload came in between).
C23_UnloadSettlesPending ==
    [][\A w \in workers :
          (/\ w.pc = "resolved"
           /\ settled[w.req.id] = "pending"
           /\ settled'[w.req.id] = "resolved")
          => isInitialized]_vars

\* C24: the passes of a request run in a fixed order: synthesis, then the
\* characteristics adjustment exactly when characteristics are supplied,
\* then the enhancement exactly when the quality is 'high' or 'ultra', each
\* on the output of the pass before it; the path the request is resolved
\* with is the output of the last of them.
C24_PassesInFixedOrder ==
    \A w \in workers :
        LET passes ==
                <<"synthesize">>
                    \o (IF w.req.chars THEN <<"adjust">> ELSE <<>>)
                    \o (IF w.req.quality \in {"high", "ultra"}
                        THEN <<"enhance">> ELSE <<>>)
            n == Len(w.finalAudioPath)
        IN  /\ w.pc = "resolved" => w.finalAudioPath = passes
            /\ w.pc \in InSynthesis =>
                   /\ n < Len(passes)
                   /\ SubSeq(passes, 1, n + 1) = Append(w.finalAudioPath, w.pc)

\* An 'ultra' request with characteristics went through all three passes.
C24_Witness ==
    \E w \in workers :
        /\ w.pc = "resolved"
        /\ w.req.chars /\ w.req.quality = "ultra"
        /\ w.finalAudioPath = <<"synthesize", "adjust", "enhance">>

\* C25: a call of synthesizeVoiceWithCloning is accepted only with the
\* service initialized and its profile id in the store at that moment; a
\* call that is refused adds nothing to the queue, starts no worker and
\* leaves the queued requests as they are.
C25_AcceptedOnlyWhenReady ==
    [][\A r \in RequestIds :
          /\ (settled[r] = "none" /\ settled'[r] = "pending") =>
                 /\ isInitialized
                 /\ \E q \in {w.req : w \in workers'}
                           \cup {synthesisQueue'[i] :
                                    i \in 1..Len(synthesisQueue')} :
                        q.id = r /\ q.profileId \in voiceProfiles
          /\ (settled[r] = "none" /\ settled'[r] = "refused") =>
                 /\ ~isInitialized \/ ProfileIds \ voiceProfiles # {}
                 /\ UNCHANGED <<synthesisQueue, workers, isProcessing,
                                activations, accepted, started>>]_vars

\* A call was refused while an earlier request was waiting in the queue.
C25_Witness ==
    \E r \in RequestIds :
        /\ settled[r] = "refused"
        /\ \E i \in 1..Len(synthesisQueue) : synthesisQueue[i].id < r
        /\ workers # {}

\* ------------------------------------- claims on deleteVoiceProfile's order

\* C26: in deleteVoiceProfile the backend cleanup comes first: a step that
\* fails the call leaves the profile in the local store and the persisted
\* collection as they were, and a step of the call that removes the id
\* from the local store is one after which the backend no longer has it.
C26_BackendCleanupBeforeLocalRemoval ==
    [][(storeCall.op = "delete" /\ storeCall.pc # "idle") =>
          /\ storeCall'.outcome = "error" =>
                 UNCHANGED <<voiceProfiles, activeIds, persisted>>
          /\ voiceProfiles' # voiceProfiles =>
                 /\ storeCall'.outcome # "error"
                 /\ storeCall.id \notin DOMAIN backendProfiles']_vars

\* A delete failed at the backend: the profile is still stored and saved.
C26_Witness ==
    /\ storeCall.op = "delete"
    /\ storeCall.outcome = "error"
    /\ storeCall.id \in voiceProfiles
    /\ storeCall.id \in persisted.ids
    /\ storeCall.id \in DOMAIN backendProfiles

\* ------------------------------------- claims on a request's life

\* C27: an accepted request leaves the queue once and is settled once: a
\* pending request is either waiting in the queue, once, or held by one
\* worker, never both; a settled request is in neither; no promise has had
\* resolve or reject invoked a second time.
C27_RemovedOnceSettledOnce ==
    LET waiting(r) ==
            {i \in 1..Len(synthesisQueue) : synthesisQueue[i].id = r}
        held(r) == {w \in workers : w.req.id = r}
    IN  /\ \A r \in RequestIds :
              /\ settled[r] # "twice"
              /\ settled[r] = "pending" =>
                     Cardinality(waiting(r)) + Cardinality(held(r)) = 1
              /\ settled[r] # "pending" =>
                     waiting(r) = {} /\ held(r) = {}
              /\ r \in started => waiting(r) = {}
        /\ \A i, j \in 1..Len(settleOrder) :
              i # j => settleOrder[i] # settleOrder[j]
        /\ \A i \in 1..Len(settleOrder) :
              settled[settleOrder[i]] \in Settled

\* Every accepted request is settled, by resolve and by reject, and the
\* queue is empty.
C27_Witness ==
    /\ Len(accepted) >= 2
    /\ Len(settleOrder) = Len(accepted)
    /\ \E r \in RequestIds : settled[r] = "resolved"
    /\ \E r \in RequestIds : settled[r] = "rejected"
    /\ synthesisQueue = <<>> /\ workers = {}

\* ------------------------------------- claims on translateWithVoiceCloning

\* C28: a translateWithVoiceCloning call (preserveVoice true) made on an
\* initialized service, whose backend calls were all accepted, returns the
\* synthesis result, and the backend profile it created is gone from the
\* backend's table when it returns.  (The temporary id is never a key of
\* the service's map.)
C28_TemporaryProfileCleanedUp ==
    /\ [](TempProfileId \notin voiceProfiles)
    /\ [][(/\ storeCall.op = "clone"
           /\ storeCall.pc # "idle"
           /\ storeCall'.pc = "idle"
           /\ isInitialized
           /\ storeCall'.id # 0)
          => /\ storeCall'.outcome = "ok"
             /\ storeCall'.id \notin DOMAIN backendProfiles']_vars

\* ------------------------------------- claims on the recorder

\* C29: VoiceService never has two startRecorder invocations without a
\* stopRecorder between them.  A cycle at "starting" has invoked
\* startRecorder and awaits it; isRecording is false until that await
\* returns, so no stopRecorder is invoked meanwhile: two such cycles are
\* two invocations in a row.
C29_AtMostOneRecorderSession ==
    Cardinality({c \in cycles : c.pc = "starting"}) <= 1

\* ------------------------------------- claims on the reducer

\* C30: after any sequence of ADD_PROFILE, UPDATE_PROFILE, DELETE_PROFILE,
\* SET_ACTIVE_PROFILE and LOAD_PROFILES actions, activeProfile is null or
\* is identical to the entry of profiles that has its id.
C30_ActiveProfileIsListed ==
    \/ profileState.activeProfile = NoProfile
    \/ \E k \in 1..Len(profileState.profiles) :
          /\ profileState.profiles[k].id = profileState.activeProfile.id
          /\ profileState.profiles[k] = profileState.activeProfile

=============================================================================
